---- MODULE Spec2Model ----
(***************************************************************************)
(* Neron MCP server: the bearer gate (http_server.py), tool dispatch        *)
(* (server.py), the pooled connection layer and the three note operations  *)
(* (db_connector.py), and the handshake endpoints (fake_oauth_server.py).  *)
(*                                                                         *)
(* Strings are sequences of one-character strings, so that startswith,     *)
(* slicing and comparison are computed the way Python computes them.       *)
(* An Optional[str] is a record [present, value].                          *)
(*                                                                         *)
(* connection_pool is a psycopg2.pool.ThreadedConnectionPool; getconn,     *)
(* putconn and closeall below follow psycopg2/pool.py (every method runs   *)
(* under the pool's lock, so each is one atomic step).                     *)
(***************************************************************************)
EXTENDS Integers, Sequences, FiniteSets, TLC

\* ---------------------------------------------------------------- bounds
\* tasks that may be in flight at once
NumTasks == 2
\* connections the store will ever open (ids are never reused)
MaxConns == 3
\* how often close_pool may be called
MaxCloseCalls == 2
\* rows a query may return
MaxRows == 1
\* largest max_retries a direct caller passes to get_valid_connection
MaxRetriesArg == 2
\* cosine distances and similarities are counted in units of 1 / Scale
Scale == 2

\* ------------------------------------------------------ program constants
\* default of get_valid_connection(max_retries=3)
DefaultMaxRetries == 3
\* config.EMBEDDING_DIMENSION
EMBEDDING_DIMENSION == 1024
\* auth_header[7:]
BearerSliceStart == 7

\* ------------------------------------------------------------- strings
Str(present, value) == [present |-> present, value |-> value]
None == Str(FALSE, <<>>)

\* str.startswith
startswith(s, prefix) ==
    /\ Len(s) >= Len(prefix)
    /\ SubSeq(s, 1, Len(prefix)) = prefix

\* s[n:]
slice_from(s, n) == SubSeq(s, n + 1, Len(s))

\* the literal "Bearer " of verify_token
BearerPrefix == <<"B", "e", "a", "r", "e", "r", " ">>

\* a credential the environment may configure
Tok == <<"t", "K">>

\* the values os.getenv('MCP_AUTH_TOKEN') may give: unset, empty, or a secret
CredentialInputs == {None, Str(TRUE, <<>>), Str(TRUE, Tok)}

\* header prefixes and remainders the requests are drawn from
PrefixInputs ==
    { BearerPrefix,
      <<"b", "e", "a", "r", "e", "r", " ">>,
      <<"B", "e", "a", "r", "e", "r">>,
      <<"B", "e", "a", "r", "e", "r", " ", " ">>,
      <<"B", "a", "s", "i", "c", " ">>,
      <<>> }

RestInputs ==
    { Tok, <<"t", "k">>, <<"t", "K", " ">>, <<" ", "t", "K">>,
      <<"t">>, <<"t", "K", "x">>, <<>> }

HeaderInputs ==
    {None} \cup { Str(TRUE, p \o r) : p \in PrefixInputs, r \in RestInputs }

\* the values (DB_MIN_CONNECTIONS, DB_MAX_CONNECTIONS) the environment may
\* configure: small pools with minimum <= maximum
PoolSizeInputs == { <<1, 1>>, <<1, 2>> }

\* the headers of the requests that run alongside the pool: none, the
\* configured one, a wrong token, a wrong scheme
GateInputs ==
    { None, Str(TRUE, BearerPrefix \o Tok),
      Str(TRUE, BearerPrefix \o <<"w", "r", "o", "n", "g">>),
      Str(TRUE, <<"b", "e", "a", "r", "e", "r", " ">> \o Tok) }

\* ------------------------------------------------------------- config.py
\* the names config.py binds at module level
ConfigAttrs ==
    { "MCP_SERVER_NAME", "MCP_AUTH_TOKEN", "VOYAGE_API_KEY", "VOYAGE_MODEL",
      "EMBEDDING_DIMENSION", "DB_HOST", "DB_PORT", "DB_NAME", "DB_USER",
      "DB_PASSWORD", "DB_MIN_CONNECTIONS", "DB_MAX_CONNECTIONS",
      "validate_config" }

\* config.<name>: an attribute the module does not bind raises AttributeError
config_has(name) == name \in ConfigAttrs


\* ------------------------------------------------------------- processes
\* a task serves one request of http_app, or calls the module's functions
\* get_valid_connection / return_connection directly
Tasks == 1..NumTasks

\* conn = None
NoConn == 0

VARIABLES
    MCP_AUTH_TOKEN,    \* config.MCP_AUTH_TOKEN, read once from the environment
    DB_MIN_CONNECTIONS, \* config.DB_MIN_CONNECTIONS, read once from the environment
    DB_MAX_CONNECTIONS, \* config.DB_MAX_CONNECTIONS, read once from the environment
    lifecycle,         \* lifespan of http_app: starting, running, stopped, failed
    connection_pool,   \* db_connector.connection_pool (None until initialised)
    closed_conns,      \* connections on which close() has been called
    nextConn,          \* id of the next connection psycopg2.connect opens
    close_calls,       \* number of close_pool calls so far
    close_result,      \* how the latest close_pool call ended
    pc,                \* position of each task
    request,           \* Authorization header of the task's request
    verified,          \* what verify_token returned for the task's request
    response,          \* what the task's handler answered
    name,              \* call_tool: the tool name of the task's call
    arguments,         \* call_tool: the arguments dictionary of the task's call
    query_embedding,   \* search_notes: length of query_embedding
    op,                \* db_connector function the task runs
    max_retries,       \* get_valid_connection: max_retries
    attempt,           \* get_valid_connection: loop variable
    tries,             \* get_connection calls made by the running get_valid_connection
    conn,              \* local variable conn of the running function
    close_conn,        \* local variable close_conn of the operation
    outcome,           \* how the operation ended: rows returned or error raised
    probe,             \* latest liveness probe of the task: connection and result
    released,          \* latest return_connection of the task: connection and close flag
    pool_calls,        \* the task's get_connection / return_connection calls, in order
    oauth_request,     \* fake_oauth_server: the request being answered
    oauth_response,    \* fake_oauth_server: the answer to it
    handshake          \* handshake endpoints the client has called so far

vars ==
    << MCP_AUTH_TOKEN, DB_MIN_CONNECTIONS, DB_MAX_CONNECTIONS, lifecycle, connection_pool, closed_conns, nextConn,
       close_calls, close_result, pc, request, response, op, max_retries,
       attempt, tries, conn, close_conn, outcome, probe, released,
       pool_calls, verified, name, arguments, query_embedding,
       oauth_request, oauth_response, handshake >>

configVars == << MCP_AUTH_TOKEN, DB_MIN_CONNECTIONS, DB_MAX_CONNECTIONS >>
poolVars == << connection_pool, closed_conns, nextConn >>
shutdownVars == << close_calls, close_result >>
gateVars == << request, verified, response, name, arguments >>
localVars == << op, max_retries, attempt, tries, conn, close_conn, outcome,
                probe, released, pool_calls, query_embedding >>
oauthVars == << oauth_request, oauth_response, handshake >>

\* ------------------------------------------------- psycopg2 pool (library)
NoPool ==
    [present |-> FALSE, closed |-> FALSE, minconn |-> 0, maxconn |-> 0,
     idle |-> <<>>, used |-> {}]

\* ThreadedConnectionPool(minconn, maxconn, ...): opens minconn connections
NewPool ==
    [present |-> TRUE, closed |-> FALSE,
     minconn |-> DB_MIN_CONNECTIONS, maxconn |-> DB_MAX_CONNECTIONS,
     idle |-> [i \in 1..DB_MIN_CONNECTIONS |-> i], used |-> {}]

Range(s) == { s[i] : i \in 1..Len(s) }
Last(s) == s[Len(s)]
Front(s) == SubSeq(s, 1, Len(s) - 1)

PoolResult(err, c, p, closing) ==
    [err |-> err, conn |-> c, pool |-> p, closing |-> closing]

\* the maxconn test of _getconn, off by one
pool_exhausted_late(p) == Cardinality(p.used) = p.maxconn + 1

\* if len(self._used) == self.maxconn
pool_exhausted(p) == Cardinality(p.used) = p.maxconn

\* _getconn takes the idle connection without removing it from the idle list
take_idle_shared(p) == [p EXCEPT !.used = @ \cup {Last(p.idle)}]

\* self._used[key] = conn = self._pool.pop()
take_idle(p) == [p EXCEPT !.idle = Front(@), !.used = @ \cup {Last(p.idle)}]

\* pool.getconn(): n is the id a newly opened connection gets, connectOK
\* whether psycopg2.connect succeeds
getconn(p, n, connectOK) ==
    IF p.closed THEN PoolResult("PoolError", NoConn, p, {})
    ELSE IF p.idle # <<>> THEN PoolResult("none", Last(p.idle), take_idle(p), {})
    ELSE IF pool_exhausted(p) THEN PoolResult("PoolError", NoConn, p, {})
    ELSE IF connectOK
         THEN PoolResult("none", n, [p EXCEPT !.used = @ \cup {n}], {})
         ELSE PoolResult("OperationalError", NoConn, p, {})

\* pool.putconn(conn, close): isClosed is conn.closed, lost is a transaction
\* status of UNKNOWN (server connection lost); the rollback of a connection
\* that goes back to the idle list is taken to succeed
putconn(p, c, close, isClosed, lost) ==
    IF p.closed THEN PoolResult("PoolError", c, p, {})
    ELSE IF c \notin p.used THEN PoolResult("PoolError", c, p, {})
    ELSE IF Len(p.idle) < p.minconn /\ ~close
         THEN IF isClosed
              THEN PoolResult("none", c, [p EXCEPT !.used = @ \ {c}], {})
              ELSE IF lost
                   THEN PoolResult("none", c, [p EXCEPT !.used = @ \ {c}], {c})
                   ELSE PoolResult("none", c,
                            [p EXCEPT !.idle = Append(@, c), !.used = @ \ {c}], {})
         ELSE PoolResult("none", c, [p EXCEPT !.used = @ \ {c}], {c})

\* pool.closeall()
closeall(p) ==
    IF p.closed THEN PoolResult("PoolError", NoConn, p, {})
    ELSE PoolResult("none", NoConn, [p EXCEPT !.closed = TRUE],
                    Range(p.idle) \cup p.used)

\* ---------------------------------------------------------- db_connector
\* get_connection()
get_connection(p, n, connectOK) ==
    IF ~p.present THEN PoolResult("RuntimeError", NoConn, p, {})
    ELSE getconn(p, n, connectOK)

\* return_connection(conn, close)
return_connection(p, c, close, isClosed, lost) ==
    IF p.present THEN putconn(p, c, close, isClosed, lost)
    ELSE PoolResult("none", c, p, {})

\* for attempt in range(max_retries), off by one
in_range_inclusive(a, m) == a <= m

\* for attempt in range(max_retries)
in_range(a, m) == a < m

\* an except clause that gives up after the first failed attempt
last_attempt_first(a, m) == a = 0

\* if attempt == max_retries - 1
last_attempt(a, m) == a = m - 1


\* ------------------------------------------------------------ http_server
\* verify_token comparing the scheme without regard to case
verify_token_nocase(auth_header) ==
    LET lower(ch) == IF ch = "B" THEN "b" ELSE
                     IF ch = "E" THEN "e" ELSE
                     IF ch = "A" THEN "a" ELSE
                     IF ch = "R" THEN "r" ELSE ch
        low(s) == [i \in 1..Len(s) |-> lower(s[i])]
    IN  IF \/ ~auth_header.present
           \/ auth_header.value = <<>>
           \/ ~startswith(low(auth_header.value), low(BearerPrefix))
        THEN FALSE
        ELSE Str(TRUE, slice_from(auth_header.value, BearerSliceStart))
                 = MCP_AUTH_TOKEN

\* verify_token(request)
verify_token(auth_header) ==
    IF \/ ~auth_header.present
       \/ auth_header.value = <<>>
       \/ ~startswith(auth_header.value, BearerPrefix)
    THEN FALSE
    ELSE LET token == slice_from(auth_header.value, BearerSliceStart)
         IN  Str(TRUE, token) = MCP_AUTH_TOKEN

NoResponse == [status |-> 0, challenge |-> <<>>, content |-> "none"]

\* Bearer realm="mcp", resource_metadata_url="https://<domain>/.well-known/..."
Challenge(domain) ==
    << "Bearer", "realm=mcp",
       "resource_metadata_url=https://", domain,
       "/.well-known/oauth-protected-resource" >>

\* the Response(...) expression of handle_mcp: the f-string reads
\* config.SERVER_DOMAIN, and an unbound attribute raises before the
\* Response is built, which Starlette turns into a 500
rejection_response ==
    IF config_has("SERVER_DOMAIN")
    THEN [status |-> 401, challenge |-> Challenge("SERVER_DOMAIN"),
          content |-> "Unauthorized"]
    ELSE [status |-> 500, challenge |-> <<>>, content |-> "AttributeError"]

\* handle_mcp that logs the failed verification and carries on
gate_open(auth_header) == TRUE

\* if not await verify_token(request): return Response(...401...)
gate_passes(auth_header) == verify_token(auth_header)

\* handle_mcp(request)
handle_mcp(t, auth_header) ==
    /\ lifecycle = "running"
    /\ pc[t] = "idle"
    /\ request' = [request EXCEPT ![t] = auth_header]
    /\ verified' = [verified EXCEPT ![t] = verify_token(auth_header)]
    /\ IF ~gate_passes(auth_header)
       THEN /\ response' = [response EXCEPT ![t] = rejection_response]
            /\ pc' = [pc EXCEPT ![t] = "rejected"]
       ELSE \* session_manager.handle_request(...)
            /\ response' = [response EXCEPT ![t] = NoResponse]
            /\ pc' = [pc EXCEPT ![t] = "call_tool"]
    /\ UNCHANGED << configVars, oauthVars, lifecycle, poolVars, shutdownVars,
                    name, arguments, localVars >>


\* ------------------------------------------------- lifespan and shutdown
\* initialize_pool(), called by lifespan before any request is served:
\* the pool constructor or the embedding client constructor may raise
initialize_pool(r) ==
    /\ lifecycle = "starting"
    /\ IF r = "db_error"
       THEN /\ lifecycle' = "failed"
            /\ UNCHANGED << connection_pool, nextConn >>
       ELSE /\ connection_pool' = NewPool
            /\ nextConn' = DB_MIN_CONNECTIONS + 1
            /\ lifecycle' = IF r = "ok" THEN "running" ELSE "failed"
    /\ UNCHANGED << configVars, oauthVars, closed_conns, shutdownVars, pc,
                    gateVars, localVars >>

\* close_pool(): the result of the call and the pool it leaves
close_pool(p) ==
    IF p.present THEN closeall(p) ELSE PoolResult("none", NoConn, p, {})

ClosePoolStep ==
    LET r == close_pool(connection_pool)
    IN  /\ close_calls < MaxCloseCalls
        /\ connection_pool' = r.pool
        /\ closed_conns' = closed_conns \cup r.closing
        /\ close_calls' = close_calls + 1
        /\ close_result' = r.err

\* lifespan after the yield: the session manager has wound down, every
\* handler has returned (the db_connector calls are synchronous), then
\* db_connector.close_pool()
lifespan_shutdown ==
    /\ lifecycle = "running"
    /\ \A t \in Tasks : pc[t] = "idle"
    /\ ClosePoolStep
    /\ lifecycle' = "stopped"
    /\ UNCHANGED << configVars, oauthVars, nextConn, pc, gateVars, localVars >>

\* a further close_pool() call at teardown
close_pool_again ==
    /\ lifecycle = "stopped"
    /\ \A t \in Tasks : pc[t] = "idle"
    /\ ClosePoolStep
    /\ UNCHANGED << configVars, oauthVars, lifecycle, nextConn, pc, gateVars,
                    localVars >>

\* ------------------------------------------------------------ operations
NoOutcome == [kind |-> "none", err |-> "none", rows |-> 0, similarity |-> 0]
Returned(n) == [kind |-> "return", err |-> "none", rows |-> n, similarity |-> 0]
Raised(e) == [kind |-> "raise", err |-> e, rows |-> 0, similarity |-> 0]
\* the rows of search_notes: n rows whose similarity column is s / Scale
ReturnedScored(n, s) ==
    [kind |-> "return", err |-> "none", rows |-> n, similarity |-> s]
NoProbe == [conn |-> NoConn, ok |-> FALSE]
NoRelease == [conn |-> NoConn, close |-> FALSE, err |-> "none"]
\* a connection get_connection() handed to the task
Got(c) == [call |-> "get_connection", conn |-> c, close |-> FALSE]
\* a return_connection(conn, close) call of the task
Put(c, close) == [call |-> "return_connection", conn |-> c, close |-> close]

DbOps == {"get_notes_by_day", "get_all_notes", "search_notes"}

\* entry of get_notes_by_day / get_all_notes / search_notes:
\* conn = None; close_conn = False; then the first statement of the try
start_op(t, f) ==
    /\ op' = [op EXCEPT ![t] = f]
    /\ conn' = [conn EXCEPT ![t] = NoConn]
    /\ close_conn' = [close_conn EXCEPT ![t] = FALSE]
    /\ max_retries' = [max_retries EXCEPT ![t] = DefaultMaxRetries]
    /\ attempt' = [attempt EXCEPT ![t] = 0]
    /\ tries' = [tries EXCEPT ![t] = 0]
    /\ pc' = [pc EXCEPT ![t] = IF f = "search_notes" THEN "embed" ELSE "gvc"]

\* the caller's cleanup sees the connection get_valid_connection worked on
conn_after_raise_shared(c) == c

\* conn = get_valid_connection() raised: the assignment did not happen, the
\* caller's conn is still the None of its first line
conn_after_raise(c) == NoConn

\* an exception leaves get_valid_connection: the direct caller sees it; in
\* an operation the except clause sets close_conn and re-raises, and the
\* operation's own conn is still None
gvc_raise(t, e) ==
    /\ outcome' = [outcome EXCEPT ![t] = Raised(e)]
    /\ conn' = [conn EXCEPT ![t] = conn_after_raise(conn[t])]
    /\ IF op[t] = "get_valid_connection"
       THEN /\ pc' = [pc EXCEPT ![t] = "op_done"]
            /\ UNCHANGED close_conn
       ELSE /\ pc' = [pc EXCEPT ![t] = "finally"]
            /\ close_conn' = [close_conn EXCEPT ![t] = TRUE]

\* the except clause of get_valid_connection once the bad connection (if
\* any) is dealt with: raise on the last attempt, else the next iteration
gvc_after_failure(t) ==
    IF last_attempt(attempt[t], max_retries[t])
    THEN /\ gvc_raise(t, "RuntimeError")
         /\ UNCHANGED attempt
    ELSE /\ attempt' = [attempt EXCEPT ![t] = @ + 1]
         /\ conn' = [conn EXCEPT ![t] = NoConn]
         /\ pc' = [pc EXCEPT ![t] = "gvc"]
         /\ UNCHANGED << outcome, close_conn >>

\* get_valid_connection, loop head and conn = get_connection()
gvc_acquire(t, connectOK) ==
    /\ pc[t] = "gvc"
    /\ IF ~in_range(attempt[t], max_retries[t])
       THEN \* the loop ran out: raise RuntimeError("Failed to get valid connection")
            /\ gvc_raise(t, "RuntimeError")
            /\ UNCHANGED << poolVars, attempt, tries, pool_calls >>
       ELSE LET r == get_connection(connection_pool, nextConn, connectOK)
            IN  /\ tries' = [tries EXCEPT ![t] = @ + 1]
                /\ connection_pool' = r.pool
                /\ nextConn' = IF r.conn = nextConn THEN nextConn + 1 ELSE nextConn
                /\ UNCHANGED closed_conns
                /\ IF r.err = "none"
                   THEN /\ conn' = [conn EXCEPT ![t] = r.conn]
                        /\ pool_calls' = [pool_calls EXCEPT ![t] =
                               Append(@, Got(r.conn))]
                        /\ pc' = [pc EXCEPT ![t] = "probe"]
                        /\ UNCHANGED << attempt, outcome, close_conn >>
                   ELSE /\ gvc_after_failure(t)
                        /\ UNCHANGED pool_calls
    /\ UNCHANGED << configVars, oauthVars, lifecycle, shutdownVars, gateVars,
                    op, query_embedding, max_retries, probe, released >>

\* get_valid_connection, the probe (cursor, SELECT 1, fetchone, close):
\* a passed probe returns conn to the caller, and the loop's frame is gone
gvc_probe(t, ok) ==
    /\ pc[t] = "probe"
    /\ probe' = [probe EXCEPT ![t] = [conn |-> conn[t], ok |-> ok]]
    /\ IF ok
       THEN /\ pc' = [pc EXCEPT ![t] =
                        IF op[t] = "get_valid_connection" THEN "held" ELSE "query"]
            /\ attempt' = [attempt EXCEPT ![t] = 0]
            /\ tries' = [tries EXCEPT ![t] = 0]
       ELSE /\ pc' = [pc EXCEPT ![t] = "gvc_except"]
            /\ UNCHANGED << attempt, tries >>
    /\ UNCHANGED << configVars, oauthVars, lifecycle, poolVars, shutdownVars,
                    gateVars, op, query_embedding, max_retries, conn,
                    close_conn, outcome, released, pool_calls >>

\* the bad connection goes back for reuse
invalidate_flag_off == FALSE

\* return_connection(conn, close=True) in the except clause
invalidate_flag == TRUE

\* get_valid_connection, except clause after a failed probe: the bad
\* connection is returned with close=True (an error of that call is
\* swallowed), then raise or retry
gvc_except(t, lost) ==
    /\ pc[t] = "gvc_except"
    /\ LET r == return_connection(connection_pool, conn[t], invalidate_flag,
                                  conn[t] \in closed_conns, lost)
       IN  /\ connection_pool' = r.pool
           /\ closed_conns' = closed_conns \cup r.closing
           /\ released' = [released EXCEPT ![t] =
                  [conn |-> conn[t], close |-> invalidate_flag, err |-> r.err]]
           /\ pool_calls' = [pool_calls EXCEPT ![t] =
                  Append(@, Put(conn[t], invalidate_flag))]
    /\ gvc_after_failure(t)
    /\ UNCHANGED << configVars, oauthVars, lifecycle, nextConn, shutdownVars,
                    gateVars, op, query_embedding, max_retries, tries,
                    probe >>


\* query_embedding before voyage_client.embed has returned
NoEmbedding == -1

\* what voyage_client.embed may give: an error (NoEmbedding), or a vector of
\* some length
EmbedInputs ==
    { NoEmbedding, EMBEDDING_DIMENSION - 1, EMBEDDING_DIMENSION,
      EMBEDDING_DIMENSION + 1 }

\* a check that only catches vectors that are too short
dimension_mismatch_short(n) == n < EMBEDDING_DIMENSION

\* if len(query_embedding) != config.EMBEDDING_DIMENSION
dimension_mismatch(n) == n # EMBEDDING_DIMENSION

\* search_notes: voyage_client.embed(...) and the dimension check; the
\* input NoEmbedding stands for the embedding call raising
search_embed(t, n) ==
    /\ pc[t] = "embed"
    /\ IF n = NoEmbedding
       THEN \* except: close_conn = True; raise (conn is still None)
            /\ outcome' = [outcome EXCEPT ![t] = Raised("EmbeddingError")]
            /\ close_conn' = [close_conn EXCEPT ![t] = TRUE]
            /\ pc' = [pc EXCEPT ![t] = "finally"]
            /\ UNCHANGED query_embedding
       ELSE /\ query_embedding' = [query_embedding EXCEPT ![t] = n]
            /\ IF dimension_mismatch(n)
               THEN \* raise ValueError; except: close_conn = True; raise
                    /\ outcome' = [outcome EXCEPT ![t] = Raised("ValueError")]
                    /\ close_conn' = [close_conn EXCEPT ![t] = TRUE]
                    /\ pc' = [pc EXCEPT ![t] = "finally"]
               ELSE /\ pc' = [pc EXCEPT ![t] = "gvc"]
                    /\ UNCHANGED << outcome, close_conn >>
    /\ UNCHANGED << configVars, oauthVars, lifecycle, poolVars, shutdownVars,
                    gateVars, op, max_retries, attempt, tries, conn, probe,
                    released, pool_calls >>

\* an except clause that forgets to mark the connection
close_on_error_off == FALSE

\* except Exception: close_conn = True
close_on_error == TRUE

\* the cosine distances the <=> operator of the store may give, in units of
\* 1 / Scale: 0 for the same direction up to 2 for the opposite one
DistanceInputs == 0..(2 * Scale)

\* 1 - (embedding <=> %s::vector) as similarity, in units of 1 / Scale
similarity_of(distance) == Scale - distance

\* cursor.execute(...), fetchall(), cursor.close() of the three operations:
\* rows = -1 stands for any of them raising; d is the distance column of
\* the rows search_notes gets
run_query(t, rows, d) ==
    /\ pc[t] = "query"
    /\ IF rows = -1
       THEN /\ outcome' = [outcome EXCEPT ![t] = Raised("QueryError")]
            /\ close_conn' = [close_conn EXCEPT ![t] = close_on_error]
       ELSE /\ outcome' = [outcome EXCEPT ![t] =
                   IF op[t] = "search_notes" /\ rows > 0
                   THEN ReturnedScored(rows, similarity_of(d))
                   ELSE Returned(rows)]
            /\ UNCHANGED close_conn
    /\ pc' = [pc EXCEPT ![t] = "finally"]
    /\ UNCHANGED << configVars, oauthVars, lifecycle, poolVars, shutdownVars,
                    gateVars, op, query_embedding, max_retries, attempt, tries,
                    conn, probe, released, pool_calls >>

\* a finally clause that only releases after a failure
must_release_on_error_only(c, close) == c # NoConn /\ close

\* finally: if conn:
must_release(c, close) == c # NoConn

\* finally: if conn: return_connection(conn, close=close_conn); an error of
\* return_connection replaces the outcome
op_finally(t, lost) ==
    /\ pc[t] = "finally"
    /\ IF must_release(conn[t], close_conn[t])
       THEN LET r == return_connection(connection_pool, conn[t], close_conn[t],
                                       conn[t] \in closed_conns, lost)
            IN  /\ connection_pool' = r.pool
                /\ closed_conns' = closed_conns \cup r.closing
                /\ released' = [released EXCEPT ![t] =
                       [conn |-> conn[t], close |-> close_conn[t], err |-> r.err]]
                /\ pool_calls' = [pool_calls EXCEPT ![t] =
                       Append(@, Put(conn[t], close_conn[t]))]
                /\ outcome' = [outcome EXCEPT ![t] =
                       IF r.err = "none" THEN @ ELSE Raised(r.err)]
       ELSE UNCHANGED << connection_pool, closed_conns, released, pool_calls,
                         outcome >>
    /\ pc' = [pc EXCEPT ![t] = "op_done"]
    /\ UNCHANGED << configVars, oauthVars, lifecycle, nextConn, shutdownVars,
                    gateVars, op, query_embedding, max_retries, attempt,
                    tries, conn, close_conn, probe >>

\* ----------------------------------------------------------- server.py
\* the decimal digits, and the number a run of digits stands for
Digits == <<"0", "1", "2", "3", "4", "5", "6", "7", "8", "9">>
IsDigit(c) == \E i \in 1..10 : Digits[i] = c
DigitValue(c) == (CHOOSE i \in 1..10 : Digits[i] = c) - 1
RECURSIVE Number(_)
Number(f) ==
    IF f = <<>> THEN 0 ELSE 10 * Number(Front(f)) + DigitValue(Last(f))

\* calendar.monthrange: the days of month m of year y
is_leap(y) == y % 4 = 0 /\ (y % 100 # 0 \/ y % 400 = 0)
days_in_month(y, m) ==
    IF m = 2 THEN (IF is_leap(y) THEN 29 ELSE 28)
    ELSE IF m \in {4, 6, 9, 11} THEN 30 ELSE 31

NoDate == [ok |-> FALSE, year |-> 0, month |-> 0, day |-> 0]

\* the directives of _strptime's regular expression:
\* %Y is \d\d\d\d, %m is 1[0-2]|0[1-9]|[1-9] and
\* %d is 3[01]|[12]\d|0[1-9]|[1-9]| [1-9]
matches_Y(f) == Len(f) = 4 /\ \A i \in 1..4 : IsDigit(f[i])
matches_m(f) ==
    \/ Len(f) = 2 /\ f[1] = "1" /\ f[2] \in {"0", "1", "2"}
    \/ Len(f) = 2 /\ f[1] = "0" /\ IsDigit(f[2]) /\ f[2] # "0"
    \/ Len(f) = 1 /\ IsDigit(f[1]) /\ f[1] # "0"
matches_d(f) ==
    \/ Len(f) = 2 /\ f[1] = "3" /\ f[2] \in {"0", "1"}
    \/ Len(f) = 2 /\ f[1] \in {"1", "2"} /\ IsDigit(f[2])
    \/ Len(f) = 2 /\ f[1] \in {"0", " "} /\ IsDigit(f[2]) /\ f[2] # "0"
    \/ Len(f) = 1 /\ IsDigit(f[1]) /\ f[1] # "0"

\* a parser that takes any three fields joined by "-" for a date
strptime_unchecked(day_str) ==
    [ok |-> Cardinality({ i \in 1..Len(day_str) : day_str[i] = "-" }) = 2,
     year |-> 0, month |-> 0, day |-> 0]

\* datetime.strptime(day_str, "%Y-%m-%d").date(): the whole string has to
\* match the three directives joined by "-", and the numbers have to be a
\* date of the calendar (year 1 or later); NoDate stands for ValueError
strptime(day_str) ==
    LET dashes == { i \in 1..Len(day_str) : day_str[i] = "-" }
    IN  IF Cardinality(dashes) # 2 THEN NoDate
        ELSE LET p1 == CHOOSE i \in dashes : \A j \in dashes : i <= j
                 p2 == CHOOSE i \in dashes : \A j \in dashes : j <= i
                 Y == SubSeq(day_str, 1, p1 - 1)
                 m == SubSeq(day_str, p1 + 1, p2 - 1)
                 d == SubSeq(day_str, p2 + 1, Len(day_str))
                 year == Number(Y)
                 month == Number(m)
                 day == Number(SelectSeq(d, IsDigit))
             IN  IF /\ matches_Y(Y) /\ matches_m(m) /\ matches_d(d)
                    /\ year >= 1
                    /\ day <= days_in_month(year, month)
                 THEN [ok |-> TRUE, year |-> year, month |-> month, day |-> day]
                 ELSE NoDate

\* a value of the arguments dictionary: absent, or a JSON value of some type
Arg(type, value) == [type |-> type, value |-> value]

\* what "day" may be: absent, not a string, or a string
DayStrings ==
    { <<"2", "0", "2", "4", "-", "0", "2", "-", "2", "9">>,
      <<"2", "0", "2", "3", "-", "0", "2", "-", "2", "9">>,
      <<"2", "0", "2", "4", "-", "1", "-", "5">>,
      <<"2", "0", "2", "4", "/", "0", "1", "/", "0", "5">>,
      <<>> }
DayInputs ==
    { Arg("absent", <<>>), Arg("int", <<>>) }
        \cup { Arg("str", s) : s \in DayStrings }

\* what "text" may be
TextInputs == {"missing", "present"}

\* arguments.get("top_k", 5)
DefaultTopK == 5

\* what "top_k" may be: absent, an integer, or a string
TopKInputs ==
    { Arg("absent", 0), Arg("str", 0) }
        \cup { Arg("int", k) : k \in {-1, 0, 1} }

ToolNames == {"get_notes_per_day", "get_all_notes", "search", "other"}

\* arguments of a call that carries none
NoArguments ==
    [day |-> Arg("absent", <<>>), text |-> "missing", top_k |-> Arg("absent", 0)]

\* the calls a client makes: each tool with the arguments it reads
ToolCallInputs ==
    { <<"get_notes_per_day", [NoArguments EXCEPT !.day = d]>> : d \in DayInputs }
        \cup { <<"get_all_notes", NoArguments>>, <<"other", NoArguments>> }
        \cup { <<"search", [NoArguments EXCEPT !.text = x, !.top_k = k]>> :
                   x \in TextInputs, k \in TopKInputs }

\* the calls that run alongside the pool with every task serving requests:
\* one for each way call_tool goes on
CallInputs ==
    { c \in ToolCallInputs :
        \/ c[1] \in {"get_all_notes", "other"}
        \/ c[1] = "get_notes_per_day"
               /\ c[2].day \in { Arg("absent", <<>>),
                                  Arg("str", <<"2", "0", "2", "4", "-",
                                               "0", "2", "-", "2", "9">>) }
        \/ c[1] = "search" /\ c[2].text = "present"
               /\ c[2].top_k \in { Arg("absent", 0), Arg("int", 0) } }

Content(text) == [status |-> 200, challenge |-> <<>>, content |-> text]

\* a check that lets zero through
non_positive_strict(k) == k < 0

\* if top_k <= 0
non_positive(k) == k <= 0

\* a test for rows that never finds the result empty
no_rows_never(n) == FALSE

\* if not notes / if not results
no_rows(n) == n = 0

\* what call_tool does before it calls db_connector: it raises e, returns
\* a message, or calls the function f
Raise(e) == [kind |-> "raise", what |-> e]
Return(text) == [kind |-> "return", what |-> text]
Call(f) == [kind |-> "call", what |-> f]

dispatch(n, a) ==
    IF n = "get_notes_per_day"
    THEN IF a.day.type = "absent" THEN Raise("KeyError")
         ELSE IF a.day.type # "str" THEN Raise("TypeError")
         ELSE IF ~strptime(a.day.value).ok THEN Return("Invalid date format")
         ELSE Call("get_notes_by_day")
    ELSE IF n = "get_all_notes" THEN Call("get_all_notes")
    ELSE IF n = "search"
    THEN IF a.text = "missing" THEN Raise("KeyError")
         ELSE LET top_k == IF a.top_k.type = "absent"
                           THEN Arg("int", DefaultTopK) ELSE a.top_k
              IN  IF top_k.type # "int" THEN Raise("TypeError")
                  ELSE IF non_positive(top_k.value)
                       THEN Return("top_k must be positive")
                       ELSE Call("search_notes")
    ELSE Return("Unknown tool")

\* the classes the modelled failures belong to, all derived from Exception
ExceptionClasses ==
    { "KeyError", "TypeError", "AttributeError", "ValueError", "RuntimeError",
      "PoolError", "OperationalError", "QueryError", "EmbeddingError" }

\* a handler that catches ValueError only
catches_value_error(e) == e = "ValueError"

\* except Exception as e
catches(e) == e \in ExceptionClasses

\* an exception raised inside the try of call_tool: the except clause
\* answers "Error: ..."; what it does not catch leaves call_tool
tool_raise(t, e) ==
    IF catches(e)
    THEN /\ response' = [response EXCEPT ![t] = Content("Error")]
         /\ pc' = [pc EXCEPT ![t] = "replied"]
    ELSE /\ pc' = [pc EXCEPT ![t] = "escaped"]
         /\ UNCHANGED response

\* call_tool(name, arguments) up to the db_connector call
call_tool(t, n, a) ==
    /\ pc[t] = "call_tool"
    /\ name' = [name EXCEPT ![t] = n]
    /\ arguments' = [arguments EXCEPT ![t] = a]
    /\ LET r == dispatch(n, a)
       IN  IF r.kind = "call"
           THEN /\ start_op(t, r.what)
                /\ UNCHANGED response
           ELSE /\ IF r.kind = "raise"
                   THEN tool_raise(t, r.what)
                   ELSE /\ response' = [response EXCEPT ![t] = Content(r.what)]
                        /\ pc' = [pc EXCEPT ![t] = "replied"]
                /\ UNCHANGED << op, conn, close_conn, max_retries, attempt,
                                tries >>
    /\ UNCHANGED << configVars, oauthVars, lifecycle, poolVars, shutdownVars,
                    request, verified, outcome, probe, released,
                    pool_calls, query_embedding >>

\* call_tool after the db_connector call: the except clause for an
\* exception of the operation, the message for an empty result, or the
\* formatted rows; formatted is FALSE when a row holds a NULL timestamp or
\* similarity, on which strftime or the multiplication raises
call_tool_reply(t, formatted) ==
    /\ op[t] \in DbOps
    /\ pc[t] = "op_done"
    /\ IF outcome[t].kind = "raise" THEN tool_raise(t, outcome[t].err)
       ELSE IF no_rows(outcome[t].rows)
       THEN /\ response' = [response EXCEPT ![t] = Content(
                   IF op[t] = "search_notes" THEN "No results"
                   ELSE "No notes found")]
            /\ pc' = [pc EXCEPT ![t] = "replied"]
       ELSE IF formatted
       THEN /\ response' = [response EXCEPT ![t] = Content("Found")]
            /\ pc' = [pc EXCEPT ![t] = "replied"]
       ELSE tool_raise(t, "AttributeError")
    /\ max_retries' = [max_retries EXCEPT ![t] = 0]
    /\ attempt' = [attempt EXCEPT ![t] = 0]
    /\ tries' = [tries EXCEPT ![t] = 0]
    /\ conn' = [conn EXCEPT ![t] = NoConn]
    /\ close_conn' = [close_conn EXCEPT ![t] = FALSE]
    /\ probe' = [probe EXCEPT ![t] = NoProbe]
    /\ released' = [released EXCEPT ![t] = NoRelease]
    /\ pool_calls' = [pool_calls EXCEPT ![t] = <<>>]
    /\ query_embedding' = [query_embedding EXCEPT ![t] = NoEmbedding]
    /\ UNCHANGED << configVars, oauthVars, lifecycle, poolVars, shutdownVars,
                    request, verified, name, arguments, op, outcome >>

\* ------------------------------------------------------- a direct caller
\* get_valid_connection(max_retries=m) called on its own
call_get_valid_connection(t, m) ==
    /\ pc[t] = "idle"
    /\ op' = [op EXCEPT ![t] = "get_valid_connection"]
    /\ max_retries' = [max_retries EXCEPT ![t] = m]
    /\ pc' = [pc EXCEPT ![t] = "gvc"]
    /\ UNCHANGED << configVars, oauthVars, lifecycle, poolVars, shutdownVars,
                    gateVars, attempt, tries, conn, close_conn, outcome, probe,
                    released, pool_calls, query_embedding >>

\* the direct caller gives its connection back: return_connection(conn, close)
call_return_connection(t, close, lost) ==
    /\ pc[t] = "held"
    /\ LET r == return_connection(connection_pool, conn[t], close,
                                  conn[t] \in closed_conns, lost)
       IN  /\ connection_pool' = r.pool
           /\ closed_conns' = closed_conns \cup r.closing
           /\ released' = [released EXCEPT ![t] =
                  [conn |-> conn[t], close |-> close, err |-> r.err]]
           /\ pool_calls' = [pool_calls EXCEPT ![t] =
                  Append(@, Put(conn[t], close))]
           /\ outcome' = [outcome EXCEPT ![t] =
                  IF r.err = "none" THEN Returned(0) ELSE Raised(r.err)]
    /\ pc' = [pc EXCEPT ![t] = "op_done"]
    /\ UNCHANGED << configVars, oauthVars, lifecycle, nextConn, shutdownVars,
                    gateVars, op, query_embedding, max_retries, attempt,
                    tries, conn, close_conn, probe >>

\* the handler (or the direct caller) has returned: its frame is gone
finish(t) ==
    /\ \/ pc[t] \in {"rejected", "replied", "escaped"}
       \/ op[t] = "get_valid_connection" /\ pc[t] = "op_done"
    /\ pc' = [pc EXCEPT ![t] = "idle"]
    /\ request' = [request EXCEPT ![t] = None]
    /\ response' = [response EXCEPT ![t] = NoResponse]
    /\ op' = [op EXCEPT ![t] = "none"]
    /\ max_retries' = [max_retries EXCEPT ![t] = 0]
    /\ attempt' = [attempt EXCEPT ![t] = 0]
    /\ tries' = [tries EXCEPT ![t] = 0]
    /\ conn' = [conn EXCEPT ![t] = NoConn]
    /\ close_conn' = [close_conn EXCEPT ![t] = FALSE]
    /\ outcome' = [outcome EXCEPT ![t] = NoOutcome]
    /\ probe' = [probe EXCEPT ![t] = NoProbe]
    /\ released' = [released EXCEPT ![t] = NoRelease]
    /\ pool_calls' = [pool_calls EXCEPT ![t] = <<>>]
    /\ verified' = [verified EXCEPT ![t] = FALSE]
    /\ name' = [name EXCEPT ![t] = "none"]
    /\ arguments' = [arguments EXCEPT ![t] = NoArguments]
    /\ query_embedding' = [query_embedding EXCEPT ![t] = NoEmbedding]
    /\ UNCHANGED << configVars, oauthVars, lifecycle, poolVars, shutdownVars >>

\* ---------------------------------------------------- fake_oauth_server.py
\* the MCP server's variables, which the handshake endpoints never touch
mcpVars ==
    << configVars, lifecycle, poolVars, shutdownVars, pc, gateVars, localVars >>

\* a parameter name is one symbol of its string, a value is spelled out in
\* characters
\* characters urllib.parse.quote_plus escapes, with their two hex digits;
\* any other character of the inputs below is a letter or a digit
PercentCodes ==
    [c \in {"&", "=", "+", "%", "/", ":", "?", "#", "\""} |->
        CASE c = "&" -> <<"2", "6">>
          [] c = "=" -> <<"3", "D">>
          [] c = "+" -> <<"2", "B">>
          [] c = "%" -> <<"2", "5">>
          [] c = "/" -> <<"2", "F">>
          [] c = ":" -> <<"3", "A">>
          [] c = "?" -> <<"3", "F">>
          [] c = "#" -> <<"2", "3">>
          [] c = "\"" -> <<"2", "2">>]

\* urllib.parse.quote_plus
RECURSIVE quote_plus(_)
quote_plus(s) ==
    IF s = <<>> THEN <<>>
    ELSE LET c == Head(s)
         IN  (IF c = " " THEN <<"+">>
              ELSE IF c \in DOMAIN PercentCodes THEN <<"%">> \o PercentCodes[c]
              ELSE <<c>>) \o quote_plus(Tail(s))

\* urllib.parse.unquote_plus
RECURSIVE unquote_plus(_)
unquote_plus(s) ==
    IF s = <<>> THEN <<>>
    ELSE IF Head(s) = "+" THEN <<" ">> \o unquote_plus(Tail(s))
    ELSE IF /\ Head(s) = "%" /\ Len(s) >= 3
            /\ \E c \in DOMAIN PercentCodes : PercentCodes[c] = SubSeq(s, 2, 3)
         THEN << CHOOSE c \in DOMAIN PercentCodes :
                     PercentCodes[c] = SubSeq(s, 2, 3) >>
                  \o unquote_plus(SubSeq(s, 4, Len(s)))
    ELSE <<Head(s)>> \o unquote_plus(Tail(s))

\* str.split(sep)
RECURSIVE split(_, _)
split(s, sep) ==
    IF \A i \in 1..Len(s) : s[i] # sep THEN <<s>>
    ELSE LET i == CHOOSE k \in 1..Len(s) :
                      s[k] = sep /\ \A j \in 1..(k - 1) : s[j] # sep
         IN  <<SubSeq(s, 1, i - 1)>> \o split(SubSeq(s, i + 1, Len(s)), sep)

\* urllib.parse.urlencode(params): params is a dict, here the sequence of
\* its (key, value) items
RECURSIVE urlencode(_)
urlencode(params) ==
    IF params = <<>> THEN <<>>
    ELSE quote_plus(Head(params)[1]) \o <<"=">> \o quote_plus(Head(params)[2])
             \o (IF Len(params) = 1 THEN <<>> ELSE <<"&">>)
             \o urlencode(Tail(params))

\* urllib.parse.parse_qsl(qs, keep_blank_values): pieces without "=" and,
\* unless keep_blank_values, pieces with an empty value are left out
RECURSIVE parse_pieces(_, _)
parse_pieces(pieces, keep_blank_values) ==
    IF pieces = <<>> THEN <<>>
    ELSE LET nv == Head(pieces)
             eq == { i \in 1..Len(nv) : nv[i] = "=" }
             at == CHOOSE i \in eq : \A j \in eq : i <= j
             rest == parse_pieces(Tail(pieces), keep_blank_values)
         IN  IF eq = {} THEN rest
             ELSE IF at = Len(nv) /\ ~keep_blank_values THEN rest
             ELSE << << unquote_plus(SubSeq(nv, 1, at - 1)),
                        unquote_plus(SubSeq(nv, at + 1, Len(nv))) >> >> \o rest

parse_qsl(qs, keep_blank_values) ==
    IF qs = <<>> THEN <<>> ELSE parse_pieces(split(qs, "&"), keep_blank_values)

\* dict(pairs).get(key): the value of the last pair with that key, or None
dict_get(pairs, key) ==
    LET at == { i \in 1..Len(pairs) : pairs[i][1] = key }
    IN  IF at = {} THEN None
        ELSE Str(TRUE, pairs[CHOOSE i \in at : \A j \in at : j <= i][2])

\* dict(pairs): a later pair with the same key replaces the value and
\* keeps the place of the earlier one
RECURSIVE dict(_)
dict(pairs) ==
    IF pairs = <<>> THEN <<>>
    ELSE LET d == dict(Front(pairs))
             kv == Last(pairs)
         IN  IF \E i \in 1..Len(d) : d[i][1] = kv[1]
             THEN [i \in 1..Len(d) |-> IF d[i][1] = kv[1] THEN kv ELSE d[i]]
             ELSE Append(d, kv)

\* str(x) of an Optional[str] inside an f-string
fstr(x) == IF x.present THEN x.value ELSE <<"N", "o", "n", "e">>

\* what a browser reads from value="..." of the hidden input: the text up
\* to the next double quote
attribute_value(s) ==
    LET q == { i \in 1..Len(s) : s[i] = "\"" }
    IN  IF q = {} THEN s
        ELSE SubSeq(s, 1, (CHOOSE i \in q : \A j \in q : i <= j) - 1)

\* a form field on its way: the browser sends it urlencoded and
\* request.form() decodes it
form_field(v) == unquote_plus(quote_plus(v))

NoRequest == [endpoint |-> "none", body |-> <<>>, from_page |-> FALSE]
NoReply ==
    [status |-> 0, json |-> <<>>, state_params |-> <<>>, params |-> <<>>,
     location |-> <<>>]
\* an exception that leaves a handler: Starlette answers 500
ServerError == [NoReply EXCEPT !.status = 500]

\* "expires_in": 315360000
ExpiresIn == 315360000
\* fake_code = "fake_auth_code_always_same"
fake_code == <<"fake_auth_code_always_same">>

\* the client's own record of the handshake: the endpoints it has called
\* and the query parameters of its latest authorization request
Called(endpoint) == [handshake EXCEPT !.steps = @ \cup {endpoint}]

\* bodies a client may POST to /register: not JSON at all, JSON that is not
\* an object, or an object with or without redirect_uris
UriLists == { <<>>, <<"https://a/cb">>, <<"https://a/cb", "https://b/cb">> }
RegisterInputs ==
    { [shape |-> x, redirect_uris |-> Arg("absent", <<>>)] :
          x \in {"not_json", "array", "null", "object"} }
        \cup { [shape |-> "object", redirect_uris |-> Arg("list", u)] :
                   u \in UriLists }
        \cup { [shape |-> "object",
                redirect_uris |-> Arg("str", <<"https://a/cb">>)] }

\* register_client(request)
register_client(payload) ==
    /\ oauth_request' =
           [endpoint |-> "register", body |-> payload, from_page |-> FALSE]
    /\ oauth_response' =
           IF payload.shape # "object"
           THEN \* request.json() raises on a body that is not JSON, and
                \* body.get raises AttributeError on a list or None
                ServerError
           ELSE [NoReply EXCEPT
                    !.status = 200,
                    !.json = [client_id |-> "neron-mcp",
                              client_secret |-> "null",
                              redirect_uris |->
                                  IF payload.redirect_uris.type = "absent"
                                  THEN Arg("list", <<>>)
                                  ELSE payload.redirect_uris,
                              token_endpoint_auth_method |-> "none"]]
    /\ handshake' = Called("register")
    /\ UNCHANGED mcpVars

\* the redirect_uri and state values of authorization requests
RedirectInputs ==
    { <<"h", ":", "/", "c">>, <<"h", ":", "/", "c", "?", "q", "=", "1">> }
StateInputs ==
    { <<>>, <<"s">>, <<"s", "&", "x">>, <<"s", " ", "x">>, <<"s", "+", "x">>,
      <<"s", "=", "1">>, <<"%", "2", "6">>, <<"s", "#", "x">> }

\* the query parameters of GET /authorize
AuthorizeInputs ==
    LET client == << << <<"client_id">>, <<"c">> >> >>
        redirect(R) == << << <<"redirect_uri">>, R>> >>
        state(S) == << << <<"state">>, S>> >>
    IN  { client \o redirect(R) \o state(S) :
              R \in RedirectInputs, S \in StateInputs }
            \cup { client \o redirect(R) : R \in RedirectInputs }
            \cup { client \o state(S) : S \in StateInputs }

\* authorize(request): the consent page with the hidden input state_params
authorize(query_params) ==
    LET params == dict(query_params)
    IN  /\ oauth_request' = [endpoint |-> "authorize", body |-> query_params,
                             from_page |-> FALSE]
        /\ oauth_response' =
               [NoReply EXCEPT !.status = 200,
                               !.state_params = urlencode(params)]
        /\ handshake' = [Called("authorize") EXCEPT !.params = params]
        /\ UNCHANGED mcpVars

\* the form the browser posts when the user presses Authorize on the page
submitted(page) ==
    Str(TRUE, form_field(attribute_value(page.state_params)))

\* state_params values posted to /authorize/callback without a consent
\* page: no such field, an empty one, or some query string
CallbackInputs ==
    { None, Str(TRUE, <<>>),
      Str(TRUE, <<"state", "=", "s">>),
      Str(TRUE, <<"redirect_uri", "=", "h", "&", "state", "=", "s">>) }

\* authorize_callback(request): state_params is form.get("state_params")
authorize_callback(state_params, from_page) ==
    LET params == dict(parse_qsl(state_params.value, FALSE))
        redirect_uri == dict_get(params, <<"redirect_uri">>)
        state == dict_get(params, <<"state">>)
    IN  /\ oauth_request' = [endpoint |-> "callback", body |-> state_params,
                             from_page |-> from_page]
        /\ oauth_response' =
               [NoReply EXCEPT
                   !.status = 303,
                   !.params = params,
                   !.location = fstr(redirect_uri) \o <<"?", "code", "=">>
                                    \o fake_code \o <<"&", "state", "=">>
                                    \o fstr(state)]
        /\ handshake' = Called("callback")
        /\ UNCHANGED mcpVars

\* the user presses Authorize on the consent page just served
consent ==
    /\ oauth_request.endpoint = "authorize"
    /\ oauth_response.status = 200
    /\ authorize_callback(submitted(oauth_response), TRUE)

\* the code field of the form posted to /token: absent, the issued code,
\* one never issued, an empty one
CodeInputs ==
    { None, Str(TRUE, fake_code), Str(TRUE, <<"b", "o", "g", "u", "s">>),
      Str(TRUE, <<>>) }

\* a token endpoint that checks the code against the one it issues
token_exchange_checked(code) ==
    IF code = Str(TRUE, fake_code)
    THEN [NoReply EXCEPT
             !.status = 200,
             !.json = [access_token |-> MCP_AUTH_TOKEN, token_type |-> "Bearer",
                       expires_in |-> ExpiresIn, scope |-> "user"]]
    ELSE [NoReply EXCEPT !.status = 400]

\* the JSONResponse of token_exchange: FAKE_TOKEN is config.MCP_AUTH_TOKEN
token_exchange(code) ==
    [NoReply EXCEPT
        !.status = 200,
        !.json = [access_token |-> MCP_AUTH_TOKEN, token_type |-> "Bearer",
                  expires_in |-> ExpiresIn, scope |-> "user"]]

\* token_exchange(request): code is form.get("code")
token_request(code) ==
    /\ oauth_request' = [endpoint |-> "token", body |-> code, from_page |-> FALSE]
    /\ oauth_response' = token_exchange(code)
    /\ handshake' = Called("token")
    /\ UNCHANGED mcpVars

\* ------------------------------------------------------- specification
\* the state after import: config read from the environment, no pool yet
InitWith(credentials, sizes) ==
    /\ MCP_AUTH_TOKEN \in credentials
    /\ \E size \in sizes :
          /\ DB_MIN_CONNECTIONS = size[1]
          /\ DB_MAX_CONNECTIONS = size[2]
    /\ lifecycle = "starting"
    /\ connection_pool = NoPool
    /\ closed_conns = {}
    /\ nextConn = 1
    /\ close_calls = 0
    /\ close_result = "none"
    /\ pc = [t \in Tasks |-> "idle"]
    /\ request = [t \in Tasks |-> None]
    /\ response = [t \in Tasks |-> NoResponse]
    /\ op = [t \in Tasks |-> "none"]
    /\ max_retries = [t \in Tasks |-> 0]
    /\ attempt = [t \in Tasks |-> 0]
    /\ tries = [t \in Tasks |-> 0]
    /\ conn = [t \in Tasks |-> NoConn]
    /\ close_conn = [t \in Tasks |-> FALSE]
    /\ outcome = [t \in Tasks |-> NoOutcome]
    /\ probe = [t \in Tasks |-> NoProbe]
    /\ verified = [t \in Tasks |-> FALSE]
    /\ released = [t \in Tasks |-> NoRelease]
    /\ pool_calls = [t \in Tasks |-> <<>>]
    /\ name = [t \in Tasks |-> "none"]
    /\ arguments = [t \in Tasks |-> NoArguments]
    /\ query_embedding = [t \in Tasks |-> NoEmbedding]
    /\ oauth_request = NoRequest
    /\ oauth_response = NoReply
    /\ handshake = [steps |-> {}, params |-> <<>>]

\* a deployment with its secret configured
Init == InitWith({Str(TRUE, Tok)}, PoolSizeInputs)

\* psycopg2.connect may always fail; it succeeds while ids remain
ConnectInputs == IF nextConn <= MaxConns THEN BOOLEAN ELSE {FALSE}

Next ==
    \/ \E r \in {"ok", "db_error", "voyage_error"} : initialize_pool(r)
    \/ lifespan_shutdown
    \/ close_pool_again
    \/ \E t \in Tasks, h \in GateInputs : handle_mcp(t, h)
    \/ \E t \in Tasks, c \in CallInputs : call_tool(t, c[1], c[2])
    \/ \E t \in Tasks, m \in 0..MaxRetriesArg : call_get_valid_connection(t, m)
    \/ \E t \in Tasks, ok \in ConnectInputs : gvc_acquire(t, ok)
    \/ \E t \in Tasks, ok \in BOOLEAN : gvc_probe(t, ok)
    \/ \E t \in Tasks, lost \in BOOLEAN : gvc_except(t, lost)
    \/ \E t \in Tasks, n \in EmbedInputs : search_embed(t, n)
    \/ \E t \in Tasks, rows \in -1..MaxRows, d \in DistanceInputs :
          run_query(t, rows, d)
    \/ \E t \in Tasks, lost \in BOOLEAN : op_finally(t, lost)
    \/ \E t \in Tasks, close \in BOOLEAN, lost \in BOOLEAN :
          call_return_connection(t, close, lost)
    \/ \E t \in Tasks, formatted \in BOOLEAN : call_tool_reply(t, formatted)
    \/ \E t \in Tasks : finish(t)

Spec == Init /\ [][Next]_vars


\* Tool Dispatch over every call of ToolCallInputs: one task serves
\* requests while another calls get_valid_connection and return_connection
\* directly and so competes for the pool
ToolTasks == {1}
DirectCallers == {2}

NextTools ==
    \/ \E r \in {"ok", "db_error", "voyage_error"} : initialize_pool(r)
    \/ \E t \in ToolTasks, h \in GateInputs : handle_mcp(t, h)
    \/ \E t \in ToolTasks, c \in ToolCallInputs : call_tool(t, c[1], c[2])
    \/ \E t \in DirectCallers, m \in 0..MaxRetriesArg :
          call_get_valid_connection(t, m)
    \/ \E t \in Tasks, ok \in ConnectInputs : gvc_acquire(t, ok)
    \/ \E t \in Tasks, ok \in BOOLEAN : gvc_probe(t, ok)
    \/ \E t \in Tasks, lost \in BOOLEAN : gvc_except(t, lost)
    \/ \E t \in Tasks, n \in EmbedInputs : search_embed(t, n)
    \/ \E t \in Tasks, rows \in -1..MaxRows, d \in DistanceInputs :
          run_query(t, rows, d)
    \/ \E t \in Tasks, lost \in BOOLEAN : op_finally(t, lost)
    \/ \E t \in Tasks, close \in BOOLEAN, lost \in BOOLEAN :
          call_return_connection(t, close, lost)
    \/ \E t \in Tasks, formatted \in BOOLEAN : call_tool_reply(t, formatted)
    \/ \E t \in Tasks : finish(t)

SpecTools == Init /\ [][NextTools]_vars

\* the gate alone, over every header of HeaderInputs
NextGate ==
    \/ \E r \in {"ok", "db_error", "voyage_error"} : initialize_pool(r)
    \/ \E t \in Tasks, h \in HeaderInputs : handle_mcp(t, h)
    \/ \E t \in Tasks : finish(t)

InitGate == InitWith(CredentialInputs, {<<1, 2>>})

SpecGate == InitGate /\ [][NextGate]_vars

\* the handshake endpoints, called in any order and any number of times
NextOAuth ==
    \/ \E payload \in RegisterInputs : register_client(payload)
    \/ \E query_params \in AuthorizeInputs : authorize(query_params)
    \/ consent
    \/ \E state_params \in CallbackInputs :
          authorize_callback(state_params, FALSE)
    \/ \E code \in CodeInputs : token_request(code)

SpecOAuth == InitGate /\ [][NextOAuth]_vars

\* a task that has entered get_valid_connection and not left it
InGvc(t) == pc[t] \in {"gvc", "probe", "gvc_except"}

\* the steps of get_valid_connection
gvc_step(t) ==
    \/ \E ok \in ConnectInputs : gvc_acquire(t, ok)
    \/ \E ok \in BOOLEAN : gvc_probe(t, ok)
    \/ \E lost \in BOOLEAN : gvc_except(t, lost)

\* a thread inside get_valid_connection keeps running: nothing in it waits
FairSpec == Spec /\ \A t \in Tasks : WF_vars(gvc_step(t))

\* ---------------------------------------------------------------- claims
\* a task whose local conn is a connection it has taken and not yet returned
Holding(t) ==
    /\ conn[t] # NoConn
    /\ pc[t] \in {"probe", "gvc_except", "query", "finally", "held"}

\* a task that came through the gate and is served by Tool Dispatch
Forwarded(t) == pc[t] \in {"call_tool", "replied"} \/ op[t] \in DbOps

\* C1: verify_token returns true exactly for a present header that is
\* "Bearer " followed by the configured credential, character for character
C1_BearerGate ==
    \A t \in Tasks :
        pc[t] \in {"rejected", "call_tool"} =>
            ( verified[t] <=>
                  /\ request[t].present
                  /\ MCP_AUTH_TOKEN.present
                  /\ request[t].value = BearerPrefix \o MCP_AUTH_TOKEN.value )

\* one request accepted, and one with the right scheme rejected for its token
C1_Witness ==
    \E t1, t2 \in Tasks :
        /\ pc[t1] = "call_tool" /\ verified[t1]
        /\ pc[t2] = "rejected" /\ ~verified[t2]
        /\ request[t2].present
        /\ startswith(request[t2].value, BearerPrefix)

\* C2: a request is handed to Tool Dispatch, and so to the pool or the
\* embedding service, only if verify_token returned true for that request;
\* a request that failed verification stays rejected
C2_NoBypass ==
    \A t \in Tasks :
        /\ Forwarded(t) => verified[t] /\ verify_token(request[t])
        /\ (pc[t] # "idle" /\ op[t] # "get_valid_connection" /\ ~verified[t])
               => pc[t] = "rejected" /\ conn[t] = NoConn

\* a verified request holds a pooled connection while another was rejected
C2_Witness ==
    \E t1, t2 \in Tasks :
        /\ op[t1] \in DbOps /\ pc[t1] = "query" /\ conn[t1] # NoConn
        /\ pc[t2] = "rejected"

\* C3: every request that fails verification ends with status 401 and the
\* WWW-Authenticate challenge pointing at the resource metadata document
C3_Rejection401 ==
    \A t \in Tasks :
        pc[t] = "rejected" =>
            /\ response[t].status = 401
            /\ response[t].challenge = Challenge("SERVER_DOMAIN")

GvcRaised(t) ==
    /\ conn[t] = NoConn
    /\ \/ op[t] = "get_valid_connection" /\ pc[t] = "op_done"
       \/ /\ op[t] \in DbOps
          /\ pc[t] \in {"finally", "op_done"}
          /\ outcome[t].err \notin {"EmbeddingError", "ValueError"}

\* never more calls of get_connection than max_retries, and once
\* get_valid_connection has raised, all max_retries attempts were made and
\* the error is the terminal one
RetryBounded(t) ==
    /\ tries[t] <= max_retries[t]
    /\ GvcRaised(t) =>
           /\ tries[t] = max_retries[t]
           /\ outcome[t] = Raised("RuntimeError")

\* C5: for every max_retries >= 0 get_valid_connection makes at most
\* max_retries attempts, raises the terminal error after the last failed one,
\* and always ends
C5_BoundedRetry ==
    /\ [](\A t \in Tasks : RetryBounded(t))
    /\ \A t \in Tasks : InGvc(t) ~> ~InGvc(t)

\* a call with max_retries = 0 has raised without an attempt, and a call
\* with a larger max_retries has raised after that many failed probes
C5_Witness ==
    \E t1, t2 \in Tasks :
        /\ op[t1] = "get_valid_connection" /\ pc[t1] = "op_done"
        /\ max_retries[t1] = 0 /\ tries[t1] = 0
        /\ outcome[t1] = Raised("RuntimeError")
        /\ op[t2] = "get_valid_connection" /\ pc[t2] = "op_done"
        /\ max_retries[t2] = MaxRetriesArg /\ tries[t2] = MaxRetriesArg
        /\ outcome[t2] = Raised("RuntimeError")
        /\ probe[t2].conn # NoConn /\ ~probe[t2].ok


\* connections sitting in the pool's idle list
IdleConns == Range(connection_pool.idle)

\* a connection get_valid_connection has returned passed the probe of that
\* attempt, and no closed connection is idle, checked out or held
OnlyProbedHandedOut ==
    /\ \A t \in Tasks :
          pc[t] \in {"query", "held"} =>
              /\ conn[t] # NoConn
              /\ probe[t] = [conn |-> conn[t], ok |-> TRUE]
              /\ conn[t] \notin closed_conns
    /\ ~connection_pool.closed =>
          closed_conns \cap (IdleConns \cup connection_pool.used) = {}

\* the step that handles a failed probe returns that connection with
\* close=True: it is closed and neither idle nor checked out afterwards, and
\* the caller is not left with it
FailedProbeInvalidated ==
    \A t \in Tasks :
        (pc[t] = "gvc_except" /\ pc'[t] # "gvc_except") =>
            /\ ~probe[t].ok /\ probe[t].conn = conn[t]
            /\ released'[t].conn = conn[t] /\ released'[t].close
            /\ conn[t] \in closed_conns'
            /\ conn[t] \notin connection_pool'.used
            /\ conn[t] \notin Range(connection_pool'.idle)
            /\ conn'[t] = NoConn

\* C6: get_valid_connection returns only a connection that passed the probe
\* in the same attempt; a connection whose probe failed is released with
\* close=True and is never handed out or put back in the idle list
C6_NoBrokenConnection ==
    /\ []OnlyProbedHandedOut
    /\ [][FailedProbeInvalidated]_vars
    /\ [][closed_conns \subseteq closed_conns' /\ nextConn' >= nextConn]_vars

\* after a failed probe closed one connection, the retry was handed
\* another one, which passed its probe
C6_Witness ==
    \E t \in Tasks :
        /\ pc[t] \in {"query", "held"}
        /\ released[t].conn # NoConn /\ released[t].close
        /\ released[t].conn \in closed_conns
        /\ released[t].conn # conn[t]
        /\ probe[t] = [conn |-> conn[t], ok |-> TRUE]

\* C7: however get_notes_by_day, get_all_notes or search_notes ends, the
\* connection it took is released by then; every checked-out connection is
\* held by a task still at work, so none is outstanding once all have ended
C7_ReleaseOnEveryPath ==
    /\ \A c \in connection_pool.used :
          \E t \in Tasks : Holding(t) /\ conn[t] = c
    /\ \A t \in Tasks :
          (op[t] \in DbOps /\ pc[t] = "op_done" /\ conn[t] # NoConn) =>
              /\ released[t].conn = conn[t]
              /\ released[t].err = "none"
    /\ (\A t \in Tasks : ~Holding(t)) => connection_pool.used = {}

\* one operation ended normally and another on a query failure, both having
\* released their connection, and nothing is outstanding
C7_Witness ==
    \E t1, t2 \in Tasks :
        /\ op[t1] \in DbOps /\ pc[t1] = "op_done"
        /\ outcome[t1].kind = "return" /\ released[t1].conn = conn[t1]
        /\ op[t2] \in DbOps /\ pc[t2] = "op_done"
        /\ outcome[t2] = Raised("QueryError") /\ released[t2].conn = conn[t2]
        /\ conn[t1] # NoConn /\ conn[t2] # NoConn
        /\ connection_pool.used = {}

C9_ExclusiveLending ==
    /\ \A t1, t2 \in Tasks :
          (t1 # t2 /\ Holding(t1) /\ Holding(t2)) => conn[t1] # conn[t2]
    /\ \A t \in Tasks : Holding(t) => conn[t] \notin IdleConns
    /\ IdleConns \cap connection_pool.used = {}

\* two callers hold connections at once, one of them a connection taken
\* from the idle list
C9_Witness ==
    \E t1, t2 \in Tasks :
        /\ t1 # t2 /\ Holding(t1) /\ Holding(t2)
        /\ conn[t1] <= DB_MIN_CONNECTIONS
        /\ pc[t1] \in {"query", "held"} /\ pc[t2] \in {"query", "held"}

\* C10: a second (or later) close_pool call completes without error and
\* leaves the pool as the first call left it
C10_ShutdownIdempotent ==
    close_calls >= 2 => close_result = "none"


\* the integer top_k of a search call: the default when the argument is absent
TopKOf(a) == IF a.top_k.type = "absent" THEN DefaultTopK ELSE a.top_k.value

\* a search call that carries a text and whose top_k is an integer k <= 0
NonPositiveSearch(t) ==
    /\ name[t] = "search"
    /\ arguments[t].text = "present"
    /\ arguments[t].top_k.type = "int"
    /\ arguments[t].top_k.value <= 0

\* the call answered "top_k must be positive" and started no operation
RefusedTopK(t) ==
    /\ pc[t] = "replied"
    /\ response[t] = Content("top_k must be positive")
    /\ op[t] \notin DbOps
    /\ query_embedding[t] = NoEmbedding
    /\ conn[t] = NoConn /\ tries[t] = 0

\* the step in which call_tool answers such a call leaves the pool alone
RefusalLeavesPool ==
    \A t \in Tasks :
        (pc[t] = "call_tool" /\ NonPositiveSearch(t)') =>
            UNCHANGED poolVars

\* C11 as stated: every search call with top_k <= 0 is answered "top_k must
\* be positive", whatever else it carries
C11_ValidateBeforeEmbed_AsStated ==
    \A t \in Tasks :
        (name[t] = "search" /\ arguments[t].top_k.type = "int"
             /\ arguments[t].top_k.value <= 0) => RefusedTopK(t)

\* C11: a search call that carries a text and an integer top_k <= 0 is
\* answered "top_k must be positive" as content, without embedding call or
\* pool access (a call without text is answered with the error content, the
\* same way); search_notes, and with it the embedding call, runs only for
\* a top_k that passed the check
C11_ValidateBeforeEmbed ==
    /\ [](\A t \in Tasks :
            /\ NonPositiveSearch(t) => RefusedTopK(t)
            /\ (name[t] = "search" /\ arguments[t].text = "missing") =>
                   /\ pc[t] = "replied" /\ response[t] = Content("Error")
                   /\ op[t] \notin DbOps /\ conn[t] = NoConn
            /\ (op[t] = "search_notes" \/ pc[t] = "embed") =>
                   /\ name[t] = "search"
                   /\ arguments[t].top_k.type \in {"absent", "int"}
                   /\ TopKOf(arguments[t]) > 0)
    /\ [][RefusalLeavesPool]_vars

\* a search with top_k = 0 was refused while the pool holds its idle
\* connection and nothing is checked out
C11_Witness ==
    \E t \in Tasks :
        /\ NonPositiveSearch(t) /\ arguments[t].top_k.value = 0
        /\ RefusedTopK(t)
        /\ connection_pool.present /\ connection_pool.used = {}
        /\ connection_pool.idle # <<>>

\* search_notes holds an embedding whose length is not EMBEDDING_DIMENSION
DimensionRefused(t) ==
    /\ op[t] = "search_notes"
    /\ query_embedding[t] \notin {NoEmbedding, EMBEDDING_DIMENSION}

\* search_notes with such an embedding is failing with the mismatch error
\* and has neither asked the pool for a connection nor released one
FailsWithoutPool(t) ==
    /\ pc[t] \in {"finally", "op_done"}
    /\ outcome[t] = Raised("ValueError")
    /\ conn[t] = NoConn /\ tries[t] = 0
    /\ probe[t] = NoProbe /\ released[t] = NoRelease

\* the steps of such a search_notes, from the check to its end, leave the
\* pool as it is
MismatchLeavesPool ==
    \A t \in Tasks :
        (pc'[t] # pc[t] /\ (DimensionRefused(t))') => UNCHANGED poolVars

\* C12: for every embedding whose length differs from EMBEDDING_DIMENSION,
\* search_notes fails with the dimension-mismatch error without acquiring a
\* pool connection and without a store query, and leaves the pool unchanged
C12_DimensionGuard ==
    /\ [](\A t \in Tasks : DimensionRefused(t) => FailsWithoutPool(t))
    /\ [][MismatchLeavesPool]_vars

\* search_notes has ended on a vector one element too long while the pool
\* is open
C12_Witness ==
    \E t \in Tasks :
        /\ DimensionRefused(t) /\ pc[t] = "op_done"
        /\ query_embedding[t] = EMBEDDING_DIMENSION + 1
        /\ outcome[t] = Raised("ValueError")
        /\ connection_pool.present /\ ~connection_pool.closed

\* the text payloads call_tool builds
ReplyTexts ==
    { "Error", "Invalid date format", "top_k must be positive",
      "Unknown tool", "No notes found", "No results", "Found" }

\* C13: whatever the tool name, the arguments and the outcome of the
\* collaborators, call_tool ends by returning a text payload: no exception
\* leaves it, and an operation that has ended, by returning or by raising,
\* can always be answered
C13_NoExceptionEscapes ==
    \A t \in Tasks :
        /\ pc[t] # "escaped"
        /\ pc[t] = "replied" =>
               /\ name[t] \in ToolNames
               /\ response[t].status = 200
               /\ response[t].content \in ReplyTexts
        /\ (op[t] \in DbOps /\ pc[t] = "op_done") =>
               ENABLED (\E formatted \in BOOLEAN : call_tool_reply(t, formatted))

\* a call whose operation found the pool unavailable on every attempt was
\* answered with the error content
C13_Witness ==
    \E t \in Tasks :
        /\ pc[t] = "replied" /\ op[t] \in DbOps
        /\ outcome[t] = Raised("RuntimeError")
        /\ response[t] = Content("Error")

\* what the token endpoint answers, whoever asks and whatever came before
TokenReply ==
    [NoReply EXCEPT
        !.status = 200,
        !.json = [access_token |-> MCP_AUTH_TOKEN, token_type |-> "Bearer",
                  expires_in |-> ExpiresIn, scope |-> "user"]]

\* C14: every POST to the token endpoint, whatever its code and whichever
\* handshake steps came before, gets the same answer: the configured
\* credential as access_token, token type Bearer and the fixed expiry; the
\* request changes nothing on the server
C14_TokenConstant ==
    /\ [](oauth_request.endpoint = "token" => oauth_response = TokenReply)
    /\ [][oauth_request'.endpoint = "token" => UNCHANGED mcpVars]_vars

\* a token was given for a code never issued, with no handshake step before
C14_Witness ==
    /\ oauth_request.endpoint = "token"
    /\ oauth_request.body = Str(TRUE, <<"b", "o", "g", "u", "s">>)
    /\ handshake.steps = {"token"}
    /\ oauth_response.json.access_token = MCP_AUTH_TOKEN

\* C15: every POST to the registration endpoint, whatever its body, is
\* answered with the client id "neron-mcp" and the redirect URIs the body
\* declares (an empty list when it declares none)
C15_RegistrationAlwaysSucceeds ==
    oauth_request.endpoint = "register" =>
        /\ oauth_response.status = 200
        /\ oauth_response.json.client_id = "neron-mcp"
        /\ oauth_response.json.redirect_uris =
               (IF oauth_request.body.redirect_uris.type = "absent"
                THEN Arg("list", <<>>)
                ELSE oauth_request.body.redirect_uris)

\* what the client reads from the Location of the redirect: the redirect
\* URI it gave, then a query with the code and the state
ClientReads(location, R) ==
    IF startswith(location, R \o <<"?">>)
    THEN LET q == parse_qsl(slice_from(location, Len(R) + 1), TRUE)
         IN  [ok |-> TRUE, code |-> dict_get(q, <<"code">>),
              state |-> dict_get(q, <<"state">>)]
    ELSE [ok |-> FALSE, code |-> None, state |-> None]

\* C16: after an authorization request with query parameters P, among them
\* redirect_uri R and state S, the callback posted from the consent page
\* reconstructs exactly P and answers 303 with a Location that is R with a
\* query carrying the constant code and state equal to S
C16_AuthorizationRoundTrip ==
    LET P == handshake.params
        R == dict_get(P, <<"redirect_uri">>)
        S == dict_get(P, <<"state">>)
    IN  (/\ oauth_request.endpoint = "callback" /\ oauth_request.from_page
         /\ R.present /\ S.present) =>
            /\ oauth_response.status = 303
            /\ oauth_response.params = P
            /\ LET seen == ClientReads(oauth_response.location, R.value)
               IN  /\ seen.ok
                   /\ seen.code = Str(TRUE, fake_code)
                   /\ seen.state = S

\* C17: every row search_notes returns has a similarity between 0 and 1
\* (0 and Scale in units of 1 / Scale), for every cosine distance between
\* 0 and 2 the store may report
C17_SimilarityRange ==
    \A t \in Tasks :
        (op[t] = "search_notes" /\ outcome[t].kind = "return"
             /\ outcome[t].rows > 0) =>
            /\ 0 <= outcome[t].similarity
            /\ outcome[t].similarity <= Scale

\* the years the day strings of the calls lie in, and their calendar dates
Years == 2023..2024
CalendarDates ==
    { d \in Years \X (1..12) \X (1..31) : d[3] <= days_in_month(d[1], d[2]) }

\* a number written with two digits, with as few digits as it needs, and
\* a year written with four digits
Pad2(n) == << Digits[(n \div 10) + 1], Digits[(n % 10) + 1] >>
Plain(n) == IF n < 10 THEN << Digits[n + 1] >> ELSE Pad2(n)
Year4(y) ==
    << Digits[(y \div 1000) + 1], Digits[((y \div 100) % 10) + 1] >>
        \o Pad2(y % 100)

\* the strings that are a date in the form YYYY-MM-DD
IsoDates ==
    { Year4(d[1]) \o <<"-">> \o Pad2(d[2]) \o <<"-">> \o Pad2(d[3]) :
          d \in CalendarDates }

\* the strings that spell a date as year-month-day with or without the
\* leading zero of month and day (a one-digit day also after a space)
LooseDates ==
    { Year4(d[1]) \o <<"-">>
          \o (IF pm THEN Pad2(d[2]) ELSE Plain(d[2])) \o <<"-">>
          \o (IF pd = "pad" THEN Pad2(d[3])
              ELSE IF pd = "space" /\ d[3] < 10 THEN <<" ">> \o Plain(d[3])
              ELSE Plain(d[3])) :
          d \in CalendarDates, pm \in BOOLEAN, pd \in {"pad", "plain", "space"} }

\* a get_notes_per_day call whose day is a string outside the set dates
DayOutside(t, dates) ==
    /\ name[t] = "get_notes_per_day"
    /\ arguments[t].day.type = "str"
    /\ arguments[t].day.value \notin dates

\* the call was answered "Invalid date format" and started no operation
RefusedDay(t) ==
    /\ pc[t] = "replied"
    /\ response[t] = Content("Invalid date format")
    /\ op[t] \notin DbOps
    /\ conn[t] = NoConn /\ tries[t] = 0

\* the step in which call_tool answers such a call leaves the pool alone
DayRefusalLeavesPool ==
    \A t \in Tasks :
        (pc[t] = "call_tool" /\ (DayOutside(t, LooseDates))') =>
            UNCHANGED poolVars

\* C18 as stated: every day string that is not a date in the form
\* YYYY-MM-DD is answered with the failure message and starts no operation
C18_MalformedDate_AsStated ==
    \A t \in Tasks : DayOutside(t, IsoDates) => RefusedDay(t)

\* C18: every day string that does not spell a calendar date as
\* year-month-day (four-digit year; month and day with or without leading
\* zero) is answered with the failure message as content, and no connection
\* is acquired, no query issued and the pool left unchanged; a string that
\* does is taken as that date
C18_MalformedDate ==
    /\ [](\A t \in Tasks :
            /\ DayOutside(t, LooseDates) => RefusedDay(t)
            /\ (name[t] = "get_notes_per_day" /\ arguments[t].day.type = "str"
                    /\ arguments[t].day.value \in LooseDates) =>
                   op[t] = "get_notes_by_day")
    /\ [][DayRefusalLeavesPool]_vars

\* the 29th of February of a year that is no leap year was refused while
\* the pool holds its idle connection
C18_Witness ==
    \E t \in Tasks :
        /\ DayOutside(t, LooseDates) /\ RefusedDay(t)
        /\ arguments[t].day.value =
               <<"2", "0", "2", "3", "-", "0", "2", "-", "2", "9">>
        /\ connection_pool.present /\ connection_pool.idle # <<>>

\* the message call_tool has for an empty result of the operation f
EmptyMessage(f) == IF f = "search_notes" THEN "No results" ELSE "No notes found"

\* an operation whose query gave no rows ends by returning the empty result
EmptyResultReturned ==
    \A t \in Tasks :
        (op[t] \in DbOps /\ pc[t] = "finally" /\ outcome[t] = Returned(0)
             /\ pc'[t] # pc[t]) =>
            pc'[t] = "op_done" /\ outcome'[t] = Returned(0)

\* C19: an operation whose query matched no rows returns the empty result
\* without failing and releases its connection with close=False, and
\* call_tool then returns the explicit message for an empty result, for
\* each of the three tools
C19_EmptyResult ==
    /\ [](\A t \in Tasks :
            (op[t] \in DbOps /\ outcome[t] = Returned(0)) =>
                /\ pc[t] = "finally" =>
                       /\ ~close_conn[t]
                       /\ conn[t] \in connection_pool.used
                       /\ conn[t] \notin closed_conns
                /\ pc[t] = "op_done" =>
                       /\ released[t].conn = conn[t]
                       /\ ~released[t].close
                       /\ released[t].err = "none"
                /\ pc[t] = "replied" =>
                       response[t] = Content(EmptyMessage(op[t])))
    /\ [][EmptyResultReturned]_vars

\* get_notes_by_day found no notes for a date, the call was answered with
\* the message, and the connection is back in the idle list
C19_Witness ==
    \E t \in Tasks :
        /\ pc[t] = "replied" /\ op[t] = "get_notes_by_day"
        /\ outcome[t] = Returned(0)
        /\ response[t] = Content("No notes found")
        /\ connection_pool.used = {} /\ connection_pool.idle # <<>>
        /\ IdleConns \cap closed_conns = {}

\* every one of the maximum connections is checked out and none is idle
Exhausted ==
    /\ connection_pool.present /\ ~connection_pool.closed
    /\ connection_pool.idle = <<>>
    /\ Cardinality(connection_pool.used) = DB_MAX_CONNECTIONS

\* an attempt of get_valid_connection on the exhausted pool: it gets no
\* connection, counts as one attempt, releases nothing and leaves the pool
\* as it is; the last of max_retries attempts ends the call with the
\* terminal error, an earlier one is followed by the next attempt
ExhaustedAttempt ==
    \A t \in Tasks :
        (/\ pc[t] = "gvc" /\ attempt[t] < max_retries[t]
         /\ Exhausted
         /\ tries'[t] # tries[t]) =>
            /\ tries'[t] = tries[t] + 1
            /\ UNCHANGED poolVars
            /\ conn'[t] = NoConn /\ pc'[t] # "probe"
            /\ released'[t] = released[t]
            /\ IF attempt[t] = max_retries[t] - 1
               THEN /\ outcome'[t] = Raised("RuntimeError")
                    /\ pc'[t] \in {"op_done", "finally"}
                    /\ tries'[t] = max_retries[t]
               ELSE /\ pc'[t] = "gvc"
                    /\ attempt'[t] = attempt[t] + 1
                    /\ outcome'[t] = outcome[t]

\* C20: while every one of the maximum connections is checked out,
\* get_valid_connection hands out none; each failed acquire counts as one
\* attempt, and after max_retries attempts the call fails with the terminal
\* error, having left the idle list and the checked-out set as they were
C20_ExhaustedPoolSurfaced ==
    /\ [][ExhaustedAttempt]_vars
    /\ [](\A t \in Tasks : tries[t] <= max_retries[t])

\* with a pool of one connection held by another caller and no connection
\* ever closed, a call has failed after max_retries attempts without
\* getting, probing or releasing a connection
C20_Witness ==
    \E t, u \in Tasks :
        /\ t # u
        /\ DB_MAX_CONNECTIONS = 1 /\ Exhausted /\ closed_conns = {}
        /\ Holding(u) /\ connection_pool.used = {conn[u]}
        /\ pc[t] = "op_done" /\ conn[t] = NoConn
        /\ outcome[t] = Raised("RuntimeError")
        /\ max_retries[t] >= 2 /\ tries[t] = max_retries[t]
        /\ probe[t] = NoProbe /\ released[t] = NoRelease

\* the positions in the task's pool_calls that are get_connection calls
Gets(t) ==
    { i \in 1..Len(pool_calls[t]) : pool_calls[t][i].call = "get_connection" }

\* the positions in the task's pool_calls that are return_connection calls
Puts(t) ==
    { i \in 1..Len(pool_calls[t]) : pool_calls[t][i].call = "return_connection" }

\* every return_connection call of the task gives back the connection that
\* its own get_connection call just before handed to it
ReleasesOwn(t) ==
    \A i \in Puts(t) :
        i > 1 /\ pool_calls[t][i - 1] = Got(pool_calls[t][i].conn)

\* every connection the task took is given back by the task's next call; the
\* one taken last may still be with the task, which then holds it
TakenAreReleased(t) ==
    \A i \in Gets(t) :
        IF i < Len(pool_calls[t])
        THEN pool_calls[t][i + 1].call = "return_connection"
        ELSE Holding(t) /\ conn[t] = pool_calls[t][i].conn

\* no connection appears in two return_connection calls of one operation
NoneReleasedTwice(t) ==
    \A i, j \in Puts(t) :
        i # j => pool_calls[t][i].conn # pool_calls[t][j].conn

\* the calls an operation has made so far pair up: take, give back, take ...
ReleasedExactlyOnce ==
    \A t \in Tasks :
        op[t] \in DbOps =>
            /\ ReleasesOwn(t)
            /\ TakenAreReleased(t)
            /\ NoneReleasedTwice(t)
            /\ pc[t] = "op_done" => Cardinality(Gets(t)) = Cardinality(Puts(t))

\* a step in which the task calls return_connection
Releasing(t) ==
    /\ Len(pool_calls'[t]) = Len(pool_calls[t]) + 1
    /\ Last(pool_calls'[t]).call = "return_connection"

\* an operation's return_connection call gives back a connection that is
\* checked out to this task and to no other, takes it out of the checked-out
\* set without error, and leaves the task without it
ReleaseTakesEffect ==
    \A t \in Tasks :
        (op[t] \in DbOps /\ Releasing(t)) =>
            LET c == Last(pool_calls'[t]).conn
            IN  /\ Holding(t) /\ conn[t] = c
                /\ \A u \in Tasks \ {t} : ~(Holding(u) /\ conn[u] = c)
                /\ c \in connection_pool.used
                /\ c \notin connection_pool'.used
                /\ released'[t].conn = c /\ released'[t].err = "none"
                /\ pc'[t] \in {"gvc", "finally", "op_done"}
                /\ pc'[t] = "finally" => conn'[t] = NoConn

\* C21: in get_notes_by_day, get_all_notes and search_notes every connection
\* taken from the pool is released exactly once: each return_connection call
\* gives back the connection the same operation took just before, no
\* connection is given back twice (the one get_valid_connection released
\* after a failed probe is not released again by the finally clause), and an
\* operation never releases a connection that another task holds
C21_NoDoubleRelease ==
    /\ []ReleasedExactlyOnce
    /\ [][ReleaseTakesEffect]_vars

\* one operation ended after get_valid_connection released a connection
\* whose probe failed and the finally clause released the next one; another
\* ended on RuntimeError after get_valid_connection released its only
\* connection, and its finally clause released nothing
C21_Witness ==
    \E t1, t2 \in Tasks :
        \E a, b, c \in 1..MaxConns :
            /\ a # b /\ c # a /\ c # b
            /\ op[t1] \in DbOps /\ pc[t1] = "op_done"
            /\ pool_calls[t1] =
                   << Got(a), Put(a, TRUE), Got(b), Put(b, FALSE) >>
            /\ outcome[t1].kind = "return"
            /\ op[t2] \in DbOps /\ pc[t2] = "op_done"
            /\ pool_calls[t2] = << Got(c), Put(c, TRUE) >>
            /\ outcome[t2] = Raised("RuntimeError")
            /\ conn[t2] = NoConn
            /\ connection_pool.used = {}

====
